---- MODULE Spec2Model ----
(***************************************************************************)
(* Model of climate_change_agriculture_sa.py: a Streamlit script that is   *)
(* re-executed from top to bottom on every rerun of a browser session.     *)
(*                                                                         *)
(* Numbers: every Python float is held as a fixed-point integer counting   *)
(* hundredths (80.0 is 8000, 0.15 is 15).  Region and scenario names are   *)
(* tuples of their words, so that Python's substring tests ("Wheat" in     *)
(* region) are computed rather than assumed.                               *)
(***************************************************************************)
EXTENDS Integers, Sequences, FiniteSets, TLC

VARIABLES
    pc,              \* position of the script run ("idle" between runs)
    runs,            \* script runs started in this session
    rng,             \* state of the process-wide numpy random source
    cache,           \* st.cache_data store of load_data: <<>> or <<result>>
    body_runs,       \* executions of the body of load_data in this process
    regions,         \* script global bound at line 151 (<<>> while unbound)
    climate_df,      \* script global bound at line 151
    crop_health_df,  \* script global bound at line 151
    projections_df,  \* script global bound at line 151
    region,          \* script global: last selectbox value (<<>> while unbound)
    year,            \* script global: slider value, later the tab3 loop variable
    crop_season,     \* st.session_state.crop_season ("unset" when absent)
    pressed,         \* script globals planting_btn, growth_btn, harvest_btn: the
                     \* season whose button returned True ("unbound" before line 305)
    rendered,        \* display sections emitted so far in this run
    display,         \* what the latest step put on the page
    first_view,      \* history: what each step of the first run displayed
    same_inputs,     \* history: this run's inputs so far equal the first run's
    differs          \* history: displayed fields that differ from the first run's

vars == <<pc, runs, rng, cache, body_runs, regions, climate_df, crop_health_df,
          projections_df, region, year, crop_season, pressed, rendered, display,
          first_view, same_inputs, differs>>

tables == <<regions, climate_df, crop_health_df, projections_df>>

history == <<first_view, same_inputs, differs>>

(***************************************************************************)
(* Bounds of the model.                                                    *)
(***************************************************************************)
MaxRuns == 3   \* script runs per session
RngMod == 4    \* states of the random source; state 0 draws 0.0 every time

(***************************************************************************)
(* Helpers for Python built-ins.                                           *)
(***************************************************************************)
Max(a, b) == IF a >= b THEN a ELSE b

\* list(range(a, b))
Range(a, b) == [i \in 1..(b - a) |-> a + i - 1]

\* word in name, for a name held as the tuple of its words
Contains(name, word) == \E i \in 1..Len(name) : name[i] = word

(***************************************************************************)
(* The random source.  np.random is never seeded, so its initial state is  *)
(* arbitrary.  State 0 is the degenerate stream whose draws are all 0.0    *)
(* (the "noise fixed to zero" mode); the other states cycle.               *)
(***************************************************************************)
\* the state n draws after state s (each draw steps the cycle 1..RngMod-1 once)
RngAfter(s, n) == IF s = 0 THEN 0 ELSE 1 + ((s - 1 + n) % (RngMod - 1))

\* the standard normal deviate drawn in state s, in hundredths
StdNormal(s) == IF s = 0 THEN 0 ELSE 133 * (2 * s - RngMod)

\* the i-th call of np.random.normal(0, sd) counted from state s (sd in hundredths)
Normal(s, i, sd) == (sd * StdNormal(RngAfter(s, i - 1))) \div 100

(***************************************************************************)
(* load_data (lines 105-149).                                              *)
(***************************************************************************)
region_defs ==
    << [name |-> <<"Western", "Cape", "Wheat">>, bbox |-> <<1840, -3420, 2050, -3300>>],
       [name |-> <<"Free", "State", "Maize">>,   bbox |-> <<2650, -2900, 2850, -2700>>],
       [name |-> <<"KZN", "Sugarcane">>,         bbox |-> <<3050, -2950, 3150, -2850>>] >>

years_short == Range(2010, 2023)

years == Range(2010, 2024)

future_years_overlap == Range(2023, 2050)

future_years == Range(2024, 2050)

temp_change(s, i) == 10 * (years[i] - 2010) + Normal(s, i, 20)

rainfall_change_rebased(s, i) ==
    -200 * (years[i] - 2009) + Normal(s, Len(years) + i, 300)

rainfall_change(s, i) == -200 * (years[i] - 2010) + Normal(s, Len(years) + i, 300)

CropTypeByEquality(name) ==
    IF name = <<"Wheat">> THEN "Wheat"
    ELSE IF name = <<"Maize">> THEN "Maize" ELSE "Sugarcane"

CropType(name) ==
    IF Contains(name, "Wheat") THEN "Wheat"
    ELSE IF Contains(name, "Maize") THEN "Maize" ELSE "Sugarcane"

\* the health value of line 127 before the clamp of line 131
HistHealth(yr, noise) == 8000 - 80 * (yr - 2010) + noise

ClampHistOff(health) == health

ClampHist(health) == Max(6000, health)

CropHealthRowRegional(s, j) ==
    LET r == ((j - 1) \div Len(years)) + 1
        y == ((j - 1) % Len(years)) + 1
        noise == Normal(s, 2 * Len(years) + j, 500)
    IN [Region          |-> region_defs[r].name,
        Year            |-> years[y],
        CropHealthIndex |-> ClampHist(HistHealth(years[y], noise) - 200 * (r - 1)),
        CropType        |-> CropType(region_defs[r].name)]

\* the j-th row appended by the nested loop of lines 125-133
CropHealthRow(s, j) ==
    LET r == ((j - 1) \div Len(years)) + 1
        y == ((j - 1) % Len(years)) + 1
        noise == Normal(s, 2 * Len(years) + j, 500)
    IN [Region          |-> region_defs[r].name,
        Year            |-> years[y],
        CropHealthIndex |-> ClampHist(HistHealth(years[y], noise)),
        CropType        |-> CropType(region_defs[r].name)]

FutureBase == 2 * Len(years) + Len(region_defs) * Len(years)

future_temp_rebased(s, i) == 15 * (future_years[i] - 2024) + Normal(s, FutureBase + i, 30)

future_temp(s, i) == 15 * (future_years[i] - 2010) + Normal(s, FutureBase + i, 30)

future_rain(s, i) ==
    -300 * (future_years[i] - 2010) + Normal(s, FutureBase + Len(future_years) + i, 500)

future_health_steep(s, i) ==
    8000 - 110 * (future_years[i] - 2010)
        + Normal(s, FutureBase + 2 * Len(future_years) + i, 600)

future_health(s, i) ==
    8000 - 100 * (future_years[i] - 2010)
        + Normal(s, FutureBase + 2 * Len(future_years) + i, 600)

ClampFuture(h) == Max(4000, h)

\* number of np.random.normal calls made by one execution of the body
LoadDraws == FutureBase + 3 * Len(future_years)

load_data(s) ==
    [regions        |-> region_defs,
     climate_df     |-> [i \in 1..Len(years) |->
                            [Year |-> years[i],
                             TemperatureChange |-> temp_change(s, i),
                             RainfallChange    |-> rainfall_change(s, i)]],
     crop_health_df |-> [j \in 1..(Len(region_defs) * Len(years)) |-> CropHealthRow(s, j)],
     projections_df |-> [i \in 1..Len(future_years) |->
                            [Year |-> future_years[i],
                             ProjectedTempChange     |-> future_temp(s, i),
                             ProjectedRainfallChange |-> future_rain(s, i),
                             ProjectedCropHealth     |-> ClampFuture(future_health(s, i))]]]

(***************************************************************************)
(* st.cache_data (line 104): load_data takes no argument, so the store     *)
(* holds at most one entry; a hit returns it without running the body.     *)
(***************************************************************************)
CacheNeverHits(c) == FALSE

CacheHit(c) == c # <<>>

Data == [regions |-> regions, climate_df |-> climate_df,
         crop_health_df |-> crop_health_df, projections_df |-> projections_df]

Bound == regions # <<>>

(***************************************************************************)
(* The history of what was displayed.  A step of the first run records its *)
(* display; a step of a later run whose inputs so far equal the first      *)
(* run's records which fields it displays differently.                     *)
(***************************************************************************)
Steps == {"tab1", "tab2_controls", "tab2_image", "tab2_health", "tab3", "tab4", "tab5"}

Blank == [kind |-> "blank"]

FieldsChanged(old, new) ==
    IF DOMAIN old # DOMAIN new
    THEN {<<new.kind, f>> : f \in DOMAIN new}
    ELSE {<<new.kind, f>> : f \in {g \in DOMAIN new : new[g] # old[g]}}

\* the history after a step that took inputs equal to the first run's (same)
\* and displayed d
Shown(d, same) ==
    /\ first_view' = IF runs = 1 THEN [first_view EXCEPT ![d.kind] = d] ELSE first_view
    /\ same_inputs' = (same_inputs /\ same)
    /\ differs' = IF runs > 1 /\ same_inputs /\ same
                  THEN differs \cup FieldsChanged(first_view[d.kind], d)
                  ELSE {}

(***************************************************************************)
(* The script run.                                                         *)
(***************************************************************************)
Init ==
    /\ pc = "idle"
    /\ runs = 0
    /\ rng \in 0..(RngMod - 1)
    /\ cache = <<>>
    /\ body_runs = 0
    /\ regions = <<>>
    /\ climate_df = <<>>
    /\ crop_health_df = <<>>
    /\ projections_df = <<>>
    /\ region = <<>>
    /\ year = 0
    /\ crop_season = "unset"
    /\ pressed = "unbound"
    /\ rendered = {}
    /\ display = Blank
    /\ first_view = [k \in Steps |-> Blank]
    /\ same_inputs = TRUE
    /\ differs = {}

\* a rerun executes the script in a fresh namespace
StartRun ==
    /\ pc \in {"idle", "crashed"}
    /\ runs < MaxRuns
    /\ pc' = "preamble"
    /\ runs' = runs + 1
    /\ regions' = <<>>
    /\ climate_df' = <<>>
    /\ crop_health_df' = <<>>
    /\ projections_df' = <<>>
    /\ region' = <<>>
    /\ year' = 0
    /\ rendered' = {}
    /\ display' = Blank
    /\ same_inputs' = TRUE
    /\ differs' = {}
    /\ pressed' = "unbound"
    /\ UNCHANGED <<rng, cache, body_runs, crop_season, first_view>>

\* lines 19-101: page configuration, CSS, title, introduction, tab containers
PreambleSections == {"page_config", "css", "title", "intro", "tabs"}

PreambleSkipsLoad ==
    /\ pc = "preamble"
    /\ pc' = "tab1"
    /\ rendered' = rendered \cup PreambleSections
    /\ display' = [kind |-> "page"]
    /\ UNCHANGED <<runs, rng, cache, body_runs, tables, region, year, crop_season, pressed, history>>

Preamble ==
    /\ pc = "preamble"
    /\ pc' = "load"
    /\ rendered' = rendered \cup PreambleSections
    /\ display' = [kind |-> "page"]
    /\ UNCHANGED <<runs, rng, cache, body_runs, tables, region, year, crop_season, pressed, history>>

\* line 151: the call of the cached load_data and the binding of its result
LoadData ==
    /\ pc = "load"
    /\ LET hit    == CacheHit(cache)
           result == IF hit THEN cache[1] ELSE load_data(rng)
       IN /\ cache' = IF hit THEN cache ELSE <<result>>
          /\ rng' = IF hit THEN rng ELSE RngAfter(rng, LoadDraws)
          /\ body_runs' = IF hit THEN body_runs ELSE body_runs + 1
          /\ regions' = result.regions
          /\ climate_df' = result.climate_df
          /\ crop_health_df' = result.crop_health_df
          /\ projections_df' = result.projections_df
    /\ pc' = "tab1"
    /\ UNCHANGED <<runs, region, year, crop_season, pressed, rendered, display, history>>

\* list(regions.keys()), the options of every region selectbox
RegionOptions(rs) == [i \in 1..Len(rs) |-> rs[i].name]

\* what a widget returns: its default on the first run of the session, any
\* option the user has chosen on a later run
Choices(options, default) ==
    IF runs = 1 THEN {default} ELSE {options[i] : i \in 1..Len(options)}

\* lines 155-268: the map features of the regions and the vulnerability chart
Features(rs) ==
    [i \in 1..Len(rs) |->
        [name   |-> rs[i].name,
         ring   |-> LET b == rs[i].bbox
                    IN << <<b[1], b[2]>>, <<b[3], b[2]>>, <<b[3], b[4]>>,
                          <<b[1], b[4]>>, <<b[1], b[2]>> >>,
         marker |-> <<(rs[i].bbox[2] + rs[i].bbox[4]) \div 2,
                      (rs[i].bbox[1] + rs[i].bbox[3]) \div 2>>]]

Tab1 ==
    /\ pc = "tab1"
    /\ pc' = "tab2_controls"
    /\ rendered' = rendered \cup {"tab1"}
    /\ display' = [kind |-> "tab1", features |-> Features(regions),
                   vulnerability |-> RegionOptions(regions)]
    /\ Shown(display', TRUE)
    /\ UNCHANGED <<runs, rng, cache, body_runs, tables, region, year, crop_season, pressed>>

(***************************************************************************)
(* Tab 2: Crop Health Analysis (lines 273-421).                            *)
(***************************************************************************)
Seasons == {"Planting", "Growth", "Harvest"}

\* at most one st.button returns True in a run: the one whose click caused it
Buttons == IF runs = 1 THEN {"none"} ELSE {"none"} \cup Seasons

planting_btn(b) == b = "Planting"

growth_btn(b) == b = "Growth"

harvest_btn(b) == b = "Harvest"

SeasonAfterNoDefault(cs, b) ==
    LET s1 == IF planting_btn(b) THEN "Planting" ELSE cs
        s2 == IF growth_btn(b) THEN "Growth" ELSE s1
    IN IF harvest_btn(b) THEN "Harvest" ELSE s2

SeasonAfterResets(cs, b) == IF b \in {"Planting", "Growth", "Harvest"} THEN b ELSE "Planting"

\* lines 312-321: st.session_state.crop_season after the three ifs and the default
SeasonAfter(cs, b) ==
    LET s1 == IF planting_btn(b) THEN "Planting" ELSE cs
        s2 == IF growth_btn(b) THEN "Growth" ELSE s1
        s3 == IF harvest_btn(b) THEN "Harvest" ELSE s2
    IN IF s3 = "unset" THEN "Planting" ELSE s3

ndvi_values_by_season(r) ==
    IF crop_season = "Growth"
    THEN <<45, 55, 65, 75, 80, 82, 85, 84, 82, 78, 70, 60>>
    ELSE <<15, 45, 65, 75, 85, 82, 78, 70, 60, 40, 25, 18>>

\* lines 336-341
ndvi_values(r) ==
    IF r = <<"Western", "Cape", "Wheat">>
    THEN <<15, 45, 65, 75, 85, 82, 78, 70, 60, 40, 25, 18>>
    ELSE IF r = <<"Free", "State", "Maize">>
    THEN <<20, 35, 60, 75, 85, 88, 90, 85, 75, 55, 35, 22>>
    ELSE <<45, 55, 65, 75, 80, 82, 85, 84, 82, 78, 70, 60>>

\* lines 282-350: region selectbox, year slider, season buttons, NDVI chart
Tab2Controls ==
    /\ pc = "tab2_controls"
    /\ \E r \in Choices(RegionOptions(regions), RegionOptions(regions)[1]),
          y \in Choices(Range(2010, 2024), 2020),
          b \in Buttons :
        /\ region' = r
        /\ year' = y
        /\ pressed' = b
        /\ crop_season' = SeasonAfter(crop_season, b)
        /\ display' = [kind |-> "tab2_controls",
                       season_text |-> crop_season',
                       ndvi |-> ndvi_values(r),
                       ndvi_title |-> <<r, y>>]
        /\ Shown(display', r = RegionOptions(regions)[1] /\ y = 2020 /\ b = "none")
    /\ pc' = "tab2_image"
    /\ rendered' = rendered \cup {"tab2_controls"}
    /\ UNCHANGED <<runs, rng, cache, body_runs, tables>>

\* what requests.get, Image.open and st.image of lines 367-372 can do
FetchOutcomes == {"ok", "status_404", "raises"}

CaughtHttpOnly(outcome) == outcome = "status_404"

\* except Exception (line 375) catches the Exception of line 374 and every
\* exception raised by the fetch, the decoding and the display
Caught(outcome) == outcome \in {"status_404", "raises"}

\* lines 355-379: the image of the region, or a warning and the placeholder
Tab2Image ==
    /\ pc = "tab2_image"
    /\ \E outcome \in FetchOutcomes :
        IF outcome = "ok"
        THEN /\ display' = [kind |-> "tab2_image", image |-> region,
                            caption |-> <<region, crop_season, year>>, warning |-> "none"]
             /\ Shown(display', runs = 1 \/ first_view["tab2_image"].warning = "none")
             /\ pc' = "tab2_health"
             /\ rendered' = rendered \cup {"tab2_image"}
        ELSE IF Caught(outcome)
        THEN /\ display' = [kind |-> "tab2_image", image |-> <<"placeholder">>,
                            caption |-> <<>>, warning |-> outcome]
             /\ Shown(display', runs = 1 \/ first_view["tab2_image"].warning = outcome)
             /\ pc' = "tab2_health"
             /\ rendered' = rendered \cup {"tab2_image"}
        ELSE /\ pc' = "crashed"
             /\ display' = [kind |-> "exception"]
             /\ UNCHANGED <<rendered, history>>
    /\ UNCHANGED <<runs, rng, cache, body_runs, tables, region, year, crop_season, pressed>>

RECURSIVE SumHealth(_)
SumHealth(rows) ==
    IF rows = <<>> THEN 0 ELSE Head(rows).CropHealthIndex + SumHealth(Tail(rows))

IsRow(row, r, y) == row.Region = r /\ row.Year = y

health_value_by_region(df, r, y) ==
    LET rows == SelectSeq(df, LAMBDA row : row.Region = r)
    IN IF rows = <<>> THEN -1 ELSE SumHealth(rows) \div Len(rows)

\* lines 382-385: the mean of the selected rows (-1 stands for NaN, the mean
\* of an empty selection)
health_value(df, r, y) ==
    LET rows == SelectSeq(df, LAMBDA row : IsRow(row, r, y))
    IN IF rows = <<>> THEN -1 ELSE SumHealth(rows) \div Len(rows)

AfterLookupInPlace(df, r, y) == SelectSeq(df, LAMBDA row : IsRow(row, r, y))

\* the boolean-mask selection of lines 382-385 builds a new frame and leaves
\* crop_health_df as it was
AfterLookup(df, r, y) == df

\* f"{v:.1f}": v to the nearest tenth, in tenths
OneDecimal(v) == (v + 5) \div 10

\* lines 381-421: the health text and the gauge
Tab2Health ==
    /\ pc = "tab2_health"
    /\ pc' = "tab3"
    /\ rendered' = rendered \cup {"tab2_health"}
    /\ display' = [kind |-> "tab2_health",
                   text |-> OneDecimal(health_value(crop_health_df, region, year)),
                   gauge |-> health_value(crop_health_df, region, year)]
    /\ Shown(display', TRUE)
    /\ crop_health_df' = AfterLookup(crop_health_df, region, year)
    /\ UNCHANGED <<runs, rng, cache, body_runs, regions, climate_df, projections_df,
                   region, year, crop_season, pressed>>

(***************************************************************************)
(* Tab 3: Climate Trends (lines 425-534).                                  *)
(***************************************************************************)
base_temp(r) ==
    IF r = <<"Western", "Cape", "Wheat">> THEN 2250
    ELSE IF r = <<"Free", "State", "Maize">> THEN 2400 ELSE 2650

\* lines 448-457: one row per year, each with a fresh draw from the random source
temp_data(r, s) ==
    [i \in 1..Len(Range(2010, 2024)) |->
        LET yr     == Range(2010, 2024)[i]
            change == 8 * (yr - 2010) + Normal(s, i, 15)
        IN [Year |-> yr,
            AverageTemperature |-> base_temp(r) + change,
            MaxTemperature     |-> base_temp(r) + 500 + change,
            MinTemperature     |-> base_temp(r) - 500 + change]]

Column(df, name) == [i \in 1..Len(df) |-> df[i][name]]

Tab3 ==
    /\ pc = "tab3"
    /\ \E r \in Choices(RegionOptions(regions), RegionOptions(regions)[1]) :
        /\ region' = r
        /\ display' = [kind |-> "tab3",
                       temperature |-> Column(climate_df, "TemperatureChange"),
                       temp_data   |-> temp_data(r, rng),
                       rainfall    |-> Column(climate_df, "RainfallChange")]
        /\ Shown(display', r = RegionOptions(regions)[1])
    /\ year' = 2023
    /\ rng' = RngAfter(rng, Len(Range(2010, 2024)))
    /\ pc' = "tab4"
    /\ rendered' = rendered \cup {"tab3"}
    /\ UNCHANGED <<runs, cache, body_runs, tables, crop_season, pressed>>

(***************************************************************************)
(* Tab 4: Future Projections (lines 539-669).                              *)
(***************************************************************************)
Scenarios ==
    << <<"Low", "Emissions", "(RCP", "2.6)">>,
       <<"Moderate", "Emissions", "(RCP", "4.5)">>,
       <<"High", "Emissions", "(RCP", "8.5)">> >>

yields_swapped(scenario) ==
    LET ys == Range(2024, 2050)
    IN IF Contains(scenario, "Low")
       THEN [i \in 1..Len(ys) |-> 10000 - 200 * (ys[i] - 2024)]
       ELSE IF Contains(scenario, "Moderate")
       THEN [i \in 1..Len(ys) |-> 10000 - 100 * (ys[i] - 2024)]
       ELSE [i \in 1..Len(ys) |-> 10000 - 50 * (ys[i] - 2024)]

\* lines 587-593
yields(scenario) ==
    LET ys == Range(2024, 2050)
    IN IF Contains(scenario, "Low")
       THEN [i \in 1..Len(ys) |-> 10000 - 50 * (ys[i] - 2024)]
       ELSE IF Contains(scenario, "Moderate")
       THEN [i \in 1..Len(ys) |-> 10000 - 100 * (ys[i] - 2024)]
       ELSE [i \in 1..Len(ys) |-> 10000 - 200 * (ys[i] - 2024)]

Tab4 ==
    /\ pc = "tab4"
    /\ \E scenario \in Choices(Scenarios, Scenarios[1]) :
        /\ display' = [kind |-> "tab4",
                       proj_temp |-> Column(projections_df, "ProjectedTempChange"),
                       proj_rain |-> Column(projections_df, "ProjectedRainfallChange"),
                       scenario  |-> scenario,
                       yields    |-> yields(scenario),
                       risk_map  |-> RegionOptions(regions) \o << <<"Other", "Areas">> >>]
        /\ Shown(display', scenario = Scenarios[1])
    /\ pc' = "tab5"
    /\ rendered' = rendered \cup {"tab4"}
    /\ UNCHANGED <<runs, rng, cache, body_runs, tables, region, year, crop_season, pressed>>

(***************************************************************************)
(* Tab 5: Recommendations (lines 672-799); the script run ends after it.   *)
(***************************************************************************)
Tab5 ==
    /\ pc = "tab5"
    /\ \E r \in Choices(RegionOptions(regions), RegionOptions(regions)[1]) :
        /\ region' = r
        /\ display' = [kind |-> "tab5", recommendations |-> r]
        /\ Shown(display', r = RegionOptions(regions)[1])
    /\ pc' = "idle"
    /\ rendered' = rendered \cup {"tab5"}
    /\ UNCHANGED <<runs, rng, cache, body_runs, tables, year, crop_season, pressed>>

Next ==
    \/ StartRun
    \/ Preamble
    \/ LoadData
    \/ Tab1
    \/ Tab2Controls
    \/ Tab2Image
    \/ Tab2Health
    \/ Tab3
    \/ Tab4
    \/ Tab5

Spec == Init /\ [][Next]_vars
(***************************************************************************)
(* Properties.                                                             *)
(***************************************************************************)
RegionNameSet == {regions[i].name : i \in 1..Len(regions)}

\* load_data has just returned to line 151 and its result is bound
JustLoaded == pc = "tab1"

RowsOf(df, r, y) == {j \in 1..Len(df) : IsRow(df[j], r, y)}

\* C1: every crop-health row (every region, every year 2010..2023) has a Crop
\* Health Index of at least 60 and every projections row (every year
\* 2024..2049) a Projected Crop Health of at least 40, whatever noise was drawn.
C1_ClampingInvariant ==
    /\ Bound =>
          /\ \A j \in 1..Len(crop_health_df) : crop_health_df[j].CropHealthIndex >= 6000
          /\ \A i \in 1..Len(projections_df) :
                projections_df[i].ProjectedCropHealth >= 4000
    /\ JustLoaded =>
          /\ \A r \in RegionNameSet : \A y \in 2010..2023 :
                \E j \in RowsOf(crop_health_df, r, y) :
                    crop_health_df[j].CropHealthIndex >= 6000
          /\ \A y \in 2024..2049 : \E i \in 1..Len(projections_df) :
                projections_df[i].Year = y /\ projections_df[i].ProjectedCropHealth >= 4000

\* load_data has returned tables in which both clamps have bound: some row
\* sits exactly on the floor of 60 and some projection on the floor of 40
C1_Witness ==
    /\ Bound
    /\ \E j \in 1..Len(crop_health_df) : crop_health_df[j].CropHealthIndex = 6000
    /\ \E j \in 1..Len(crop_health_df) : crop_health_df[j].CropHealthIndex > 6000
    /\ \E i \in 1..Len(projections_df) : projections_df[i].ProjectedCropHealth = 4000

\* C2: the body of load_data runs at most once in the process; once the cache
\* holds a result it is never replaced, a later call of load_data draws nothing
\* from the random source and every call returns the four tables the cache
\* holds, which are those of the first call.
C2_CachedResult ==
    [][ /\ body_runs' <= 1
        /\ (cache # <<>> => cache' = cache)
        /\ (pc = "load" =>
               /\ cache' # <<>>
               /\ Data' = cache'[1]
               /\ (cache # <<>> => rng' = rng /\ body_runs' = body_runs)) ]_vars

\* a rerun has called load_data again and got the tables of the first call
C2_Witness ==
    /\ runs >= 2
    /\ pc = "tab1"
    /\ body_runs = 1
    /\ Data = cache[1]

\* C3: whatever the image fetch does, the image step ends at the health
\* indicator of the same run (no exception leaves the try/except), and a
\* failed fetch shows a warning together with the fixed placeholder image.
C3_ImageFailureHandled ==
    [][ pc = "tab2_image" =>
           /\ pc' = "tab2_health"
           /\ display'.kind = "tab2_image"
           /\ \/ display'.warning = "none" /\ display'.image = region
              \/ display'.warning \in {"status_404", "raises"}
                    /\ display'.image = <<"placeholder">> ]_vars

\* a fetch has failed with an exception and the run stands at the health indicator
C3_Witness ==
    /\ pc = "tab2_health"
    /\ display.kind = "tab2_image"
    /\ display.warning = "raises"
    /\ display.image = <<"placeholder">>

\* C4: the crop-health table has exactly 42 rows, 14 per region, exactly one
\* per (region, year) with year in 2010..2023; the climate table has exactly
\* 14 rows and the projections table exactly 26.
C4_RowCounts ==
    /\ Bound =>
          /\ Len(regions) = 3
          /\ Len(crop_health_df) = 42
          /\ Len(climate_df) = 14
          /\ Len(projections_df) = 26
    /\ JustLoaded =>
          /\ Cardinality(RegionNameSet) = 3
          /\ \A r \in RegionNameSet :
                /\ Cardinality({j \in 1..Len(crop_health_df) :
                                   crop_health_df[j].Region = r}) = 14
                /\ \A y \in 2010..2023 : Cardinality(RowsOf(crop_health_df, r, y)) = 1
          /\ \A j \in 1..Len(crop_health_df) :
                /\ crop_health_df[j].Region \in RegionNameSet
                /\ crop_health_df[j].Year \in 2010..2023

\* the body of load_data has just produced the tables of the first run
C4_Witness ==
    /\ pc = "tab1"
    /\ runs = 1
    /\ body_runs = 1
    /\ Len(crop_health_df) = 42
    /\ Len(projections_df) = 26

\* C5: the region set is exactly the three named regions and every crop-health
\* row carries the crop type of its region: Wheat for Western Cape Wheat,
\* Maize for Free State Maize, Sugarcane for KZN Sugarcane.
C5_RegionsAndCropTypes ==
    Bound =>
        /\ RegionNameSet = {<<"Western", "Cape", "Wheat">>, <<"Free", "State", "Maize">>,
                            <<"KZN", "Sugarcane">>}
        /\ \A j \in 1..Len(crop_health_df) :
              LET row == crop_health_df[j]
              IN /\ row.CropType \in {"Wheat", "Maize", "Sugarcane"}
                 /\ row.Region = <<"Western", "Cape", "Wheat">> => row.CropType = "Wheat"
                 /\ row.Region = <<"Free", "State", "Maize">> => row.CropType = "Maize"
                 /\ row.Region = <<"KZN", "Sugarcane">> => row.CropType = "Sugarcane"

\* the returned crop-health table holds rows of all three crop types
C5_Witness ==
    /\ Bound
    /\ {crop_health_df[j].CropType : j \in 1..Len(crop_health_df)}
          = {"Wheat", "Maize", "Sugarcane"}

\* C6: with every noise draw 0.0, the temperature anomaly of year Y in
\* 2010..2023 is 0.1*(Y-2010) (0.0 for 2010, 1.0 for 2020) and the projected
\* anomaly of year Y in 2024..2049 is 0.15*(Y-2010) (2.1 for 2024).
C6_ZeroNoiseTemperature ==
    (Bound /\ rng = 0) =>
        /\ \A i \in 1..Len(climate_df) :
              /\ climate_df[i].TemperatureChange = 10 * (climate_df[i].Year - 2010)
              /\ climate_df[i].Year = 2010 => climate_df[i].TemperatureChange = 0
              /\ climate_df[i].Year = 2020 => climate_df[i].TemperatureChange = 100
        /\ \A i \in 1..Len(projections_df) :
              /\ projections_df[i].ProjectedTempChange = 15 * (projections_df[i].Year - 2010)
              /\ projections_df[i].Year = 2024 => projections_df[i].ProjectedTempChange = 210

\* the zero-noise tables exist and hold the rows of 2020 and of 2024
C6_Witness ==
    /\ Bound
    /\ rng = 0
    /\ \E i \in 1..Len(climate_df) :
          climate_df[i].Year = 2020 /\ climate_df[i].TemperatureChange = 100
    /\ \E i \in 1..Len(projections_df) :
          projections_df[i].Year = 2024 /\ projections_df[i].ProjectedTempChange = 210

\* C7: the Year column of the climate table is exactly 2010, 2011, ..., 2023
\* and that of the projections table exactly 2024, 2025, ..., 2049, in
\* increasing order without gap or repetition; the ranges do not overlap and
\* 2024 directly follows 2023.
C7_ContiguousYears ==
    Bound =>
        /\ Column(climate_df, "Year") = [i \in 1..14 |-> 2009 + i]
        /\ Column(projections_df, "Year") = [i \in 1..26 |-> 2023 + i]
        /\ \A i \in 1..(Len(climate_df) - 1) : climate_df[i + 1].Year = climate_df[i].Year + 1
        /\ \A i \in 1..(Len(projections_df) - 1) :
              projections_df[i + 1].Year = projections_df[i].Year + 1
        /\ {climate_df[i].Year : i \in 1..Len(climate_df)}
              \cap {projections_df[i].Year : i \in 1..Len(projections_df)} = {}
        /\ projections_df[1].Year = climate_df[Len(climate_df)].Year + 1

\* both tables are bound, the first ending in 2023 and the second ending in 2049
C7_Witness ==
    /\ Bound
    /\ climate_df[Len(climate_df)].Year = 2023
    /\ projections_df[Len(projections_df)].Year = 2049

RenderSteps == {"tab1", "tab2_controls", "tab2_image", "tab2_health", "tab3", "tab4", "tab5"}

\* C8: no render step, under any widget selection in any run, changes the
\* regions, climate, crop-health or projections table, nor the cached result.
C8_TablesReadOnly ==
    [][ (pc \in RenderSteps) => (tables' = tables /\ cache' = cache) ]_vars

\* a rerun with a pressed season button and another year has rendered all five
\* tabs and the tables are still those of the cache
C8_Witness ==
    /\ pc = "idle"
    /\ runs >= 2
    /\ ~same_inputs
    /\ RenderSteps \subseteq rendered
    /\ Data = cache[1]

TabSections == RenderSteps

\* C9 as stated: nothing is displayed in a run before load_data has returned.
C9_NoDisplayBeforeLoad == ~Bound => rendered = {}

\* C9 as amended: before load_data has returned in a run, only the page
\* configuration, the CSS, the title, the introduction and the empty tab
\* containers have been displayed; no tab content is displayed before it.
C9_OnlyPreambleBeforeLoad ==
    /\ ~Bound => rendered \subseteq PreambleSections
    /\ rendered \cap TabSections # {} => Bound

\* the run stands at the call of load_data with the preamble already displayed
C9_Witness ==
    /\ pc = "load"
    /\ ~Bound
    /\ rendered = PreambleSections

\* the displayed fields that depend on more than the tables and the selections
StatefulFields ==
    {<<"tab2_controls", "season_text">>, <<"tab2_image", "caption">>, <<"tab3", "temp_data">>}

\* C10 as stated: a run whose tables, widget selections and image-fetch outcome
\* equal those of the first run displays every value as the first run did.
C10_StatelessDisplay ==
    (pc = "idle" /\ runs > 1 /\ same_inputs) => differs = {}

\* C10 as amended: such a run displays every value as the first run did,
\* except the regional temperature series of the Climate Trends tab, the
\* selected-season text and the image caption that names the season.
C10_StatelessExceptSeasonAndSeries ==
    (runs > 1 /\ same_inputs) => differs \subseteq StatefulFields

\* a complete later run with the first run's inputs shows another season,
\* another caption and another temperature series than the first run
C10_Witness ==
    /\ pc = "idle"
    /\ runs > 1
    /\ same_inputs
    /\ differs = StatefulFields

\* C11: when the body of load_data runs, two crop-health rows of the same year
\* whose noise draws are equal get the same Crop Health Index, whatever their
\* regions: the region enters the value through the noise draw only.
C11_RegionIndependent ==
    [][ (pc = "load" /\ cache = <<>>) =>
           \A j, k \in 1..Len(crop_health_df') :
              ( /\ crop_health_df'[j].Year = crop_health_df'[k].Year
                /\ Normal(rng, 2 * Len(years) + j, 500) = Normal(rng, 2 * Len(years) + k, 500) )
              => crop_health_df'[j].CropHealthIndex = crop_health_df'[k].CropHealthIndex ]_vars

\* the body has run with equal (zero) noise for all rows, and two rows of
\* different regions and the same year carry the same unclamped value
C11_Witness ==
    /\ pc = "tab1"
    /\ runs = 1
    /\ rng = 0
    /\ \E j, k \in 1..Len(crop_health_df) :
          /\ crop_health_df[j].Region # crop_health_df[k].Region
          /\ crop_health_df[j].Year = crop_health_df[k].Year
          /\ crop_health_df[j].CropHealthIndex = crop_health_df[k].CropHealthIndex
          /\ crop_health_df[j].CropHealthIndex > 6000

\* C12: with every noise draw 0.0, year Y in 2010..2023 has rainfall anomaly
\* -2*(Y-2010) and, for every region, crop-health index max(60, 80-0.8*(Y-2010));
\* year Y in 2024..2049 has rainfall anomaly -3*(Y-2010) and projected
\* crop-health index max(40, 80-1.0*(Y-2010)).
C12_ZeroNoiseRainfallAndHealth ==
    (Bound /\ rng = 0) =>
        /\ \A i \in 1..Len(climate_df) :
              climate_df[i].RainfallChange = -200 * (climate_df[i].Year - 2010)
        /\ \A r \in RegionNameSet : \A y \in 2010..2023 :
              /\ RowsOf(crop_health_df, r, y) # {}
              /\ \A j \in RowsOf(crop_health_df, r, y) :
                    crop_health_df[j].CropHealthIndex = Max(6000, 8000 - 80 * (y - 2010))
        /\ \A i \in 1..Len(projections_df) :
              LET row == projections_df[i]
              IN /\ row.ProjectedRainfallChange = -300 * (row.Year - 2010)
                 /\ row.ProjectedCropHealth = Max(4000, 8000 - 100 * (row.Year - 2010))

\* the zero-noise tables exist: -26 % of rainfall in 2023, -117 % and a
\* projected health of 41 in 2049
C12_Witness ==
    /\ Bound
    /\ rng = 0
    /\ \E i \in 1..Len(climate_df) :
          climate_df[i].Year = 2023 /\ climate_df[i].RainfallChange = -2600
    /\ \E i \in 1..Len(projections_df) :
          /\ projections_df[i].Year = 2049
          /\ projections_df[i].ProjectedRainfallChange = -11700
          /\ projections_df[i].ProjectedCropHealth = 4100

\* this run has executed the season logic of lines 303-324
AfterSeasonLogic == pressed # "unbound"

\* C13: once the Crop Health tab of a run has executed its season logic,
\* crop_season is Planting, Growth or Harvest; it is Planting on the first run
\* of the session, where no button was pressed; in a run where a season button
\* was pressed it is that button's season, and it is the season that the
\* 'Selected Season' text and the image caption of that run show.
C13_SeasonAfterLogic ==
    AfterSeasonLogic =>
        /\ crop_season \in Seasons
        /\ (runs = 1 /\ pressed = "none") => crop_season = "Planting"
        /\ pressed \in Seasons => crop_season = pressed
        /\ display.kind = "tab2_controls" => display.season_text = crop_season
        /\ (display.kind = "tab2_image" /\ display.warning = "none")
              => display.caption[2] = crop_season

\* the Harvest button was pressed and the image caption of that run names Harvest
C13_Witness ==
    /\ pressed = "Harvest"
    /\ crop_season = "Harvest"
    /\ display.kind = "tab2_image"
    /\ display.warning = "none"
    /\ display.caption[2] = "Harvest"

\* C14: a rerun in which no season button is pressed leaves crop_season as the
\* previous run left it: its season logic keeps the value, and no other step
\* of any run writes crop_season.
C14_SeasonKeptWithoutButton ==
    [][ /\ (pc = "tab2_controls" /\ runs > 1 /\ pressed' = "none")
              => crop_season' = crop_season
        /\ (pc # "tab2_controls") => crop_season' = crop_season ]_vars

\* a rerun without a pressed button has ended and crop_season is still the
\* Growth that an earlier run's button set
C14_Witness ==
    /\ pc = "idle"
    /\ runs > 1
    /\ pressed = "none"
    /\ crop_season = "Growth"

\* C15: when the Crop Health tab is about to read its widgets, for every
\* region of its selectbox and every year of its slider (2010..2023) the
\* lookup matches exactly one row; the health
\* indicator shows that row's value (as the gauge value, and to one decimal
\* in the text), the row is that of the tab's own region and year selection,
\* and the value is at least 60.
C15_LookupIsOneRow ==
    /\ pc = "tab2_controls" =>
          \A r \in RegionNameSet : \A y \in 2010..2023 :
              /\ Cardinality(RowsOf(crop_health_df, r, y)) = 1
              /\ \A j \in RowsOf(crop_health_df, r, y) :
                    /\ health_value(crop_health_df, r, y) = crop_health_df[j].CropHealthIndex
                    /\ health_value(crop_health_df, r, y) >= 6000
    /\ display.kind = "tab2_health" =>
          /\ region \in RegionNameSet
          /\ year \in 2010..2023
          /\ \A j \in RowsOf(crop_health_df, region, year) :
                /\ display.gauge = crop_health_df[j].CropHealthIndex
                /\ display.text = OneDecimal(crop_health_df[j].CropHealthIndex)
          /\ display.gauge >= 6000
          /\ display.text >= 600

\* a rerun has selected KZN Sugarcane and 2010 and shows the health of that row
C15_Witness ==
    /\ display.kind = "tab2_health"
    /\ region = <<"KZN", "Sugarcane">>
    /\ year = 2010
    /\ \E j \in RowsOf(crop_health_df, region, year) :
          display.gauge = crop_health_df[j].CropHealthIndex

\* C16: with every noise draw 0.0 neither clamp binds: 80-0.8*(Y-2010) > 60 for
\* Y in 2010..2023 and 80-1.0*(Y-2010) > 40 for Y in 2024..2049, the stored
\* values equal these unclamped values, and both series strictly decrease in Y.
C16_ZeroNoiseClampsIdle ==
    (Bound /\ rng = 0) =>
        /\ \A j \in 1..Len(crop_health_df) :
              /\ 8000 - 80 * (crop_health_df[j].Year - 2010) > 6000
              /\ crop_health_df[j].CropHealthIndex = 8000 - 80 * (crop_health_df[j].Year - 2010)
        /\ \A j, k \in 1..Len(crop_health_df) :
              ( /\ crop_health_df[j].Region = crop_health_df[k].Region
                /\ crop_health_df[j].Year < crop_health_df[k].Year )
              => crop_health_df[j].CropHealthIndex > crop_health_df[k].CropHealthIndex
        /\ \A i \in 1..Len(projections_df) :
              /\ 8000 - 100 * (projections_df[i].Year - 2010) > 4000
              /\ projections_df[i].ProjectedCropHealth
                    = 8000 - 100 * (projections_df[i].Year - 2010)
        /\ \A i, k \in 1..Len(projections_df) :
              projections_df[i].Year < projections_df[k].Year
              => projections_df[i].ProjectedCropHealth > projections_df[k].ProjectedCropHealth

\* the zero-noise tables hold the lowest values of both series, 69.6 for 2023
\* and 41 for 2049, both above their floors
C16_Witness ==
    /\ Bound
    /\ rng = 0
    /\ \E j \in 1..Len(crop_health_df) :
          crop_health_df[j].Year = 2023 /\ crop_health_df[j].CropHealthIndex = 6960
    /\ \E i \in 1..Len(projections_df) :
          projections_df[i].Year = 2049 /\ projections_df[i].ProjectedCropHealth = 4100
    /\ pc = "tab1"

\* the yearly loss of yield of a scenario, in hundredths of a percent
YearlyLoss(scenario) ==
    IF scenario = Scenarios[1] THEN 50 ELSE IF scenario = Scenarios[2] THEN 100 ELSE 200

\* C17: when the Future Projections tab is about to read its scenario radio,
\* for each of the three scenarios the projected yield series has one
\* value per year 2024..2049, starts at 100 and falls by 0.5 (Low), 1.0
\* (Moderate) or 2.0 (High) per year; in every year Low >= Moderate >= High,
\* and every value lies within 50..100.
C17_YieldSeries ==
    /\ pc = "tab4" =>
          /\ \A n \in 1..Len(Scenarios) :
                LET ys == yields(Scenarios[n])
                IN /\ Len(ys) = 26
                   /\ ys[1] = 10000
                   /\ \A i \in 1..(Len(ys) - 1) :
                         ys[i + 1] = ys[i] - YearlyLoss(Scenarios[n])
                   /\ \A i \in 1..Len(ys) : ys[i] >= 5000 /\ ys[i] <= 10000
          /\ \A i \in 1..26 :
                /\ yields(Scenarios[1])[i] >= yields(Scenarios[2])[i]
                /\ yields(Scenarios[2])[i] >= yields(Scenarios[3])[i]
    /\ display.kind = "tab4" =>
          /\ display.scenario \in {Scenarios[n] : n \in 1..Len(Scenarios)}
          /\ Len(display.yields) = 26
          /\ display.yields[1] = 10000
          /\ \A i \in 1..(Len(display.yields) - 1) :
                display.yields[i + 1] = display.yields[i] - YearlyLoss(display.scenario)
          /\ \A i \in 1..Len(display.yields) :
                display.yields[i] >= 5000 /\ display.yields[i] <= 10000

\* the High Emissions scenario is selected and its series ends at 50 in 2049
C17_Witness ==
    /\ display.kind = "tab4"
    /\ display.scenario = Scenarios[3]
    /\ display.yields[26] = 5000
====
